---- MODULE Spec2Model ----
(***************************************************************************)
(* The task board of src/app/page.js: the Home component's state (tasks,   *)
(* newTask, nextId), its mount effect that hydrates from localStorage, and *)
(* the addTask / handleDelete / onChange handlers, together with the       *)
(* 'tasks' slot of localStorage, which outlives a page session.            *)
(*                                                                         *)
(* Text (the slot's value, titles) is a sequence of one-character strings; *)
(* JSON.stringify and JSON.parse are modelled on that text.                *)
(***************************************************************************)
EXTENDS Integers, Sequences, FiniteSets, TLC

\* ------------------------------------------------------------------ bounds
\* addTask is cut off once the counter has passed MaxId.
MaxId == 3
\* With two tabs open, the two tabs together add at most MaxTabAdds tasks.
MaxTabAdds == 2

\* The texts a user types into the input field: nothing, a letter, and a
\* quote and a backslash, which JSON.stringify has to escape.
QuoteBackslash == <<"\"", "\\">>
Titles == {<<>>, <<"a">>, QuoteBackslash}

\* ------------------------------------------------------- JavaScript values
JNull == [t |-> "null", n |-> 0, s |-> <<>>, a |-> <<>>]
JNum(k) == [t |-> "num", n |-> k, s |-> <<>>, a |-> <<>>]
JStr(x) == [t |-> "str", n |-> 0, s |-> x, a |-> <<>>]
JArr(xs) == [t |-> "arr", n |-> 0, s |-> <<>>, a |-> xs]
\* An object: its members in insertion order, each <<key text, value>>.
JObj(ms) == [t |-> "obj", n |-> 0, s |-> <<>>, a |-> ms]

KeyId == <<"i", "d">>
KeyTitle == <<"t", "i", "t", "l", "e">>
KeyDescription == <<"d", "e", "s", "c", "r", "i", "p", "t", "i", "o", "n">>

\* The object literal of addTask, {id, title, description}, as a JS value.
TaskValue(task) ==
    JObj(<< <<KeyId, JNum(task.id)>>,
            <<KeyTitle, JStr(task.title)>>,
            <<KeyDescription, JStr(task.description)>> >>)

IsTaskValue(v) ==
    /\ v.t = "obj"
    /\ Len(v.a) = 3
    /\ v.a[1][1] = KeyId /\ v.a[1][2].t = "num"
    /\ v.a[2][1] = KeyTitle /\ v.a[2][2].t = "str"
    /\ v.a[3][1] = KeyDescription /\ v.a[3][2].t = "str"

\* The task record a task-shaped JS value stands for.
AsTask(v) == [id |-> v.a[1][2].n, title |-> v.a[2][2].s, description |-> v.a[3][2].s]

\* --------------------------------------------------------- JSON.stringify
Digits == <<"0", "1", "2", "3", "4", "5", "6", "7", "8", "9">>

RECURSIVE NumberText(_)
NumberText(k) ==
    IF k < 10 THEN <<Digits[k + 1]>>
    ELSE NumberText(k \div 10) \o <<Digits[(k % 10) + 1]>>

\* Escaped with the escaping left out: the text is copied as it is.
EscapedNot(x) == x

\* The body of a JSON string literal: quote and backslash are escaped.
RECURSIVE Escaped(_)
Escaped(x) ==
    IF x = <<>> THEN <<>>
    ELSE (IF Head(x) \in {"\"", "\\"} THEN <<"\\", Head(x)>> ELSE <<Head(x)>>)
         \o Escaped(Tail(x))

Quoted(x) == <<"\"">> \o Escaped(x) \o <<"\"">>

RECURSIVE Stringify(_), StringifyItems(_), StringifyMembers(_)
Stringify(v) ==
    CASE v.t = "null" -> <<"n", "u", "l", "l">>
      [] v.t = "num" -> NumberText(v.n)
      [] v.t = "str" -> Quoted(v.s)
      [] v.t = "arr" -> <<"[">> \o StringifyItems(v.a) \o <<"]">>
      [] v.t = "obj" -> <<"{">> \o StringifyMembers(v.a) \o <<"}">>

StringifyItems(xs) ==
    IF xs = <<>> THEN <<>>
    ELSE Stringify(Head(xs))
         \o (IF Len(xs) > 1 THEN <<",">> ELSE <<>>)
         \o StringifyItems(Tail(xs))

StringifyMembers(ms) ==
    IF ms = <<>> THEN <<>>
    ELSE Quoted(Head(ms)[1]) \o <<":">> \o Stringify(Head(ms)[2])
         \o (IF Len(ms) > 1 THEN <<",">> ELSE <<>>)
         \o StringifyMembers(Tail(ms))

\* JSON.stringify(tasks) of addTask and handleDelete.
JSONstringify(ts) == Stringify(JArr([k \in 1..Len(ts) |-> TaskValue(ts[k])]))

\* -------------------------------------------------------------- JSON.parse
\* A parse step answers [ok, val, pos]: pos is the first character not read.
Bad == [ok |-> FALSE, val |-> JNull, pos |-> 0]
Good(v, p) == [ok |-> TRUE, val |-> v, pos |-> p]

IsDigit(c) == \E d \in 1..10 : Digits[d] = c
DigitValue(c) == (CHOOSE d \in 1..10 : Digits[d] = c) - 1
At(s, i, c) == i <= Len(s) /\ s[i] = c

RECURSIVE ParseDigits(_, _, _)
ParseDigits(s, i, acc) ==
    IF i <= Len(s) /\ IsDigit(s[i])
    THEN ParseDigits(s, i + 1, acc * 10 + DigitValue(s[i]))
    ELSE Good(JNum(acc), i)

\* The body of a string literal, after its opening quote.
RECURSIVE ParseChars(_, _, _)
ParseChars(s, i, acc) ==
    IF i > Len(s) THEN Bad
    ELSE IF s[i] = "\"" THEN Good(JStr(acc), i + 1)
    ELSE IF s[i] = "\\"
         THEN IF i + 1 <= Len(s) /\ s[i + 1] \in {"\"", "\\"}
              THEN ParseChars(s, i + 2, Append(acc, s[i + 1]))
              ELSE Bad
    ELSE ParseChars(s, i + 1, Append(acc, s[i]))

RECURSIVE ParseValue(_, _), ParseItems(_, _, _), ParseMembers(_, _, _)
ParseValue(s, i) ==
    IF i > Len(s) THEN Bad
    ELSE IF s[i] = "n"
         THEN IF At(s, i + 1, "u") /\ At(s, i + 2, "l") /\ At(s, i + 3, "l")
              THEN Good(JNull, i + 4)
              ELSE Bad
    ELSE IF s[i] = "0" THEN Good(JNum(0), i + 1)
    ELSE IF IsDigit(s[i]) THEN ParseDigits(s, i, 0)
    ELSE IF s[i] = "\"" THEN ParseChars(s, i + 1, <<>>)
    ELSE IF s[i] = "[" THEN ParseItems(s, i + 1, <<>>)
    ELSE IF s[i] = "{" THEN ParseMembers(s, i + 1, <<>>)
    ELSE Bad

\* The items of an array, after "[" or after a comma.
ParseItems(s, i, acc) ==
    IF At(s, i, "]") /\ acc = <<>> THEN Good(JArr(acc), i + 1)
    ELSE LET r == ParseValue(s, i)
         IN  IF ~r.ok THEN Bad
             ELSE IF At(s, r.pos, ",") THEN ParseItems(s, r.pos + 1, Append(acc, r.val))
             ELSE IF At(s, r.pos, "]") THEN Good(JArr(Append(acc, r.val)), r.pos + 1)
             ELSE Bad

\* The members of an object, after "{" or after a comma.
ParseMembers(s, i, acc) ==
    IF At(s, i, "}") /\ acc = <<>> THEN Good(JObj(acc), i + 1)
    ELSE IF ~At(s, i, "\"") THEN Bad
    ELSE LET k == ParseChars(s, i + 1, <<>>)
         IN  IF ~k.ok \/ ~At(s, k.pos, ":") THEN Bad
             ELSE LET r == ParseValue(s, k.pos + 1)
                  IN  IF ~r.ok THEN Bad
                      ELSE IF At(s, r.pos, ",")
                           THEN ParseMembers(s, r.pos + 1, Append(acc, <<k.val.s, r.val>>))
                      ELSE IF At(s, r.pos, "}")
                           THEN Good(JObj(Append(acc, <<k.val.s, r.val>>)), r.pos + 1)
                      ELSE Bad

\* JSON.parse(text): ok is FALSE where it throws a SyntaxError.
JSONparse(text) ==
    LET r == ParseValue(text, 1)
    IN  IF r.ok /\ r.pos = Len(text) + 1 THEN r ELSE Bad

\* ------------------------------------------------------------------- state
VARIABLES
    store,      \* localStorage's 'tasks' slot: [present, text]
    tasks,      \* useState([]): the collection, a sequence of task records
    newTask,    \* useState(''): the input field's text
    nextId,     \* useState(1): the id the next task gets
    pc,         \* where the session is: "init" (not rendered yet), "mounted"
                \* (first render committed, mount effect pending), "flush" (a
                \* handler ran while the effect was pending: the effect runs
                \* before the next render), "hydrated", "crashed" (the effect
                \* threw and the component is gone)
    rendered,   \* the list has been rendered in this session
    shown,      \* the tasks prop of the last render of TaskList
    hydrations, \* how often the mount effect has run in this session
    hist,       \* history: what the sessions so far have done
    last,       \* history: the last step taken and the state it started from
    tabs        \* a second tab on the same slot: [other, writer]. other is
                \* that tab's session, writer the tab that wrote the slot
                \* last: "this", "other", or "none"

vars == <<store, tasks, newTask, nextId, pc, rendered, shown, hydrations, hist, last, tabs>>

Absent == [present |-> FALSE, text |-> <<>>]
Slot(text) == [present |-> TRUE, text |-> text]

\* What the slot may hold when the first session starts: nothing, or text
\* this program never writes.
ForeignTexts ==
    { <<"o", "o", "p", "s">>,       \* not JSON
      <<"[", "{">>,                 \* truncated JSON
      <<"{", "}">>,                 \* JSON, an object
      <<"7">>,                      \* JSON, a number
      <<"\"", "a", "\"">>,          \* JSON, a string
      <<"n", "u", "l", "l">>,       \* JSON null
      <<"0">> }                     \* JSON zero

\* The step `op` with argument `id`, taken from the current state.
Step(op, id) ==
    [op |-> op, id |-> id, tasks |-> tasks, newTask |-> newTask, nextId |-> nextId,
     pc |-> pc, hydrations |-> hydrations, maxGiven |-> hist.maxGiven,
     sessGiven |-> hist.sessGiven, deleted |-> hist.deleted, fresh |-> hist.fresh,
     wrote |-> hist.wrote]

\* A step of which only the name is kept.
Plain(op) ==
    [op |-> op, id |-> 0, tasks |-> <<>>, newTask |-> <<>>, nextId |-> 1,
     pc |-> "init", hydrations |-> 0, maxGiven |-> 0, sessGiven |-> 0,
     deleted |-> FALSE, fresh |-> FALSE, wrote |-> FALSE]

NewSession(h) ==
    [h EXCEPT !.adds = 0, !.deleted = FALSE, !.mutated = FALSE,
              !.emptyStart = FALSE, !.fresh = FALSE, !.sessGiven = 0]

Init ==
    /\ store \in {Absent} \cup {Slot(x) : x \in ForeignTexts}
    /\ tasks = <<>>
    /\ newTask = <<>>
    /\ nextId = 1
    /\ pc = "init"
    /\ rendered = FALSE
    /\ shown = <<>>
    /\ hydrations = 0
    /\ hist = [maxGiven |-> 0, sessGiven |-> 0, adds |-> 0, deleted |-> FALSE,
               mutated |-> FALSE, emptyStart |-> FALSE, fresh |-> FALSE,
               wrote |-> FALSE, written |-> <<>>]
    /\ last = Plain("none")
    /\ tabs = [other |-> [tasks |-> <<>>, newTask |-> <<>>, nextId |-> 1, pc |-> "init",
                          rendered |-> FALSE, shown |-> <<>>, hydrations |-> 0],
               writer |-> "none"]

\* --------------------------------------------------------- the mount effect
\* localStorage.getItem('tasks') as JSON.parse reads it: a missing item is
\* null, which JSON.parse turns into the text "null".
GetItemText(st) == IF st.present THEN st.text ELSE <<"n", "u", "l", "l">>

\* JavaScript's falsy values among the JSON values: null, 0 and "".
Falsy(v) == v.t = "null" \/ (v.t = "num" /\ v.n = 0) \/ (v.t = "str" /\ v.s = <<>>)

\* savedTasks = JSON.parse(...) || []
savedTasks(v) == IF Falsy(v) THEN JArr(<<>>) ELSE v

Max2(x, y) == IF x >= y THEN x ELSE y

\* The reduce with the start value 1 instead of 0.
RECURSIVE maxIdFromOne(_)
maxIdFromOne(ts) ==
    IF ts = <<>> THEN 1 ELSE Max2(maxIdFromOne(SubSeq(ts, 1, Len(ts) - 1)), ts[Len(ts)].id)

\* savedTasks.reduce((max, task) => Math.max(max, task.id), 0)
RECURSIVE maxId(_)
maxId(ts) ==
    IF ts = <<>> THEN 0 ELSE Max2(maxId(SubSeq(ts, 1, Len(ts) - 1)), ts[Len(ts)].id)

\* The counter seeded from the number of tasks instead of the largest id.
SeedFromLength(ts) == Len(ts) + 1

\* setNextId(maxId + 1)
SeedNextId(ts) == maxId(ts) + 1

\* The effect left without its empty dependency list: it is due after
\* every render.
EffectAlwaysPending(p) == p \in {"mounted", "flush", "hydrated"}

\* useEffect(..., []): the effect is due once, after the first render.
EffectPending(p) == p \in {"mounted", "flush"}

Capped(n) == IF n < 2 THEN n + 1 ELSE n

\* The render of Home, line 152: TaskList gets the current tasks.
FirstRender ==
    /\ pc = "init"
    /\ pc' = "mounted"
    /\ rendered' = TRUE
    /\ shown' = tasks
    /\ last' = Plain("render")
    /\ UNCHANGED <<store, tasks, newTask, nextId, hydrations, hist, tabs>>

\* The effect reads the slot and sets tasks and nextId.
Hydrate ==
    /\ EffectPending(pc)
    /\ LET r == JSONparse(GetItemText(store))
       IN  /\ r.ok
           /\ savedTasks(r.val).t = "arr"
           /\ LET saved == savedTasks(r.val).a
                  loaded == [k \in 1..Len(saved) |-> AsTask(saved[k])]
              IN  /\ tasks' = loaded
                  /\ nextId' = SeedNextId(loaded)
                  /\ shown' = loaded
                  /\ hist' = [hist EXCEPT !.emptyStart = (loaded = <<>>), !.fresh = TRUE]
    /\ pc' = "hydrated"
    /\ hydrations' = Capped(hydrations)
    /\ last' = Step("hydrate", 0)
    /\ UNCHANGED <<store, newTask, rendered, tabs>>

\* The effect throws: JSON.parse a SyntaxError (line 70), or reduce a
\* TypeError because savedTasks is no array (line 72). Nothing catches it,
\* and React removes the component.
HydrateThrows ==
    /\ EffectPending(pc)
    /\ LET r == JSONparse(GetItemText(store))
       IN  ~r.ok \/ savedTasks(r.val).t # "arr"
    /\ pc' = "crashed"
    /\ hydrations' = Capped(hydrations)
    /\ last' = Step("throw", 0)
    /\ UNCHANGED <<store, tasks, newTask, nextId, rendered, shown, hist, tabs>>

\* ------------------------------------------------------------ the handlers
\* A handler can run once the component is rendered. One that runs while
\* the mount effect is still pending sees the initial state; the effect
\* then runs before the render the handler asked for.
HandlersLive == pc \in {"mounted", "hydrated"}
After(p) == IF p = "mounted" THEN "flush" ELSE p
Rerender(ts) == IF pc = "hydrated" THEN ts ELSE shown

\* onChange={(e) => setNewTask(e.target.value)}
onChange(text) ==
    /\ HandlersLive
    /\ newTask' = text
    /\ pc' = After(pc)
    /\ last' = Plain("change")
    /\ UNCHANGED <<store, tasks, nextId, rendered, shown, hydrations, hist, tabs>>

\* newTaskObj = {id: nextId, title: newTask, description: ''}
newTaskObj(id, title) == [id |-> id, title |-> title, description |-> <<>>]

\* The new task put in front.
updatedTasksFront(ts, obj) == <<obj>> \o ts

\* The new task left out when its title is empty.
updatedTasksUnlessBlank(ts, obj) == IF obj.title = <<>> THEN ts ELSE Append(ts, obj)

\* updatedTasks = [...tasks, newTaskObj]
updatedTasks(ts, obj) == Append(ts, obj)

\* The counter left as it was.
IncrementNot(n) == n

\* setNextId(nextId + 1)
Increment(n) == n + 1

\* The collection before the change is written.
PersistedStale(before, after) == JSONstringify(before)

\* localStorage.setItem('tasks', JSON.stringify(<the new collection>))
Persisted(before, after) == JSONstringify(after)

\* The tasks in the slot, or none where it holds no array.
SlotTasks(st) ==
    LET r == JSONparse(GetItemText(st))
    IN  IF r.ok /\ r.val.t = "arr"
        THEN [k \in 1..Len(r.val.a) |-> AsTask(r.val.a[k])]
        ELSE <<>>

\* addTask that merges: it writes the slot's tasks followed by the new one.
addTaskMerging ==
    /\ HandlersLive
    /\ nextId <= MaxId
    /\ LET updated == updatedTasks(tasks, newTaskObj(nextId, newTask))
           merged == updatedTasks(SlotTasks(store), newTaskObj(nextId, newTask))
       IN  /\ tasks' = updated
           /\ store' = Slot(Persisted(tasks, merged))
           /\ shown' = Rerender(updated)
           /\ hist' = [hist EXCEPT !.maxGiven = Max2(@, nextId), !.sessGiven = Max2(@, nextId),
                                   !.adds = @ + 1, !.mutated = TRUE, !.fresh = FALSE,
                                   !.wrote = TRUE, !.written = merged]
    /\ newTask' = <<>>
    /\ nextId' = Increment(nextId)
    /\ pc' = After(pc)
    /\ last' = Step("add", nextId)
    /\ tabs' = [tabs EXCEPT !.writer = "this"]
    /\ UNCHANGED <<rendered, hydrations>>

addTask ==
    /\ HandlersLive
    /\ nextId <= MaxId
    /\ LET updated == updatedTasks(tasks, newTaskObj(nextId, newTask))
       IN  /\ tasks' = updated
           /\ store' = Slot(Persisted(tasks, updated))
           /\ shown' = Rerender(updated)
           /\ hist' = [hist EXCEPT !.maxGiven = Max2(@, nextId), !.sessGiven = Max2(@, nextId),
                                   !.adds = @ + 1, !.mutated = TRUE, !.fresh = FALSE,
                                   !.wrote = TRUE, !.written = updated]
    /\ newTask' = <<>>
    /\ nextId' = Increment(nextId)
    /\ pc' = After(pc)
    /\ last' = Step("add", nextId)
    /\ tabs' = [tabs EXCEPT !.writer = "this"]
    /\ UNCHANGED <<rendered, hydrations>>

\* The filter that drops the matching task and all after it.
RECURSIVE newTasksBefore(_, _)
newTasksBefore(ts, id) ==
    IF ts = <<>> \/ Head(ts).id = id THEN <<>> ELSE <<Head(ts)>> \o newTasksBefore(Tail(ts), id)

\* newTasks = tasks.filter((task) => task.id !== id)
newTasks(ts, id) == SelectSeq(ts, LAMBDA task : task.id # id)

\* handleDelete that also sets the counter anew from the tasks left.
handleDeleteReseeding(id) ==
    /\ HandlersLive
    /\ LET kept == newTasks(tasks, id)
       IN  /\ tasks' = kept
           /\ nextId' = SeedNextId(kept)
           /\ store' = Slot(Persisted(tasks, kept))
           /\ shown' = Rerender(kept)
           /\ hist' = [hist EXCEPT !.deleted = TRUE, !.mutated = TRUE, !.fresh = FALSE,
                                   !.wrote = TRUE, !.written = kept]
    /\ pc' = After(pc)
    /\ last' = Step("delete", id)
    /\ tabs' = [tabs EXCEPT !.writer = "this"]
    /\ UNCHANGED <<newTask, rendered, hydrations>>

handleDelete(id) ==
    /\ HandlersLive
    /\ LET kept == newTasks(tasks, id)
       IN  /\ tasks' = kept
           /\ store' = Slot(Persisted(tasks, kept))
           /\ shown' = Rerender(kept)
           /\ hist' = [hist EXCEPT !.deleted = TRUE, !.mutated = TRUE, !.fresh = FALSE,
                                   !.wrote = TRUE, !.written = kept]
    /\ pc' = After(pc)
    /\ last' = Step("delete", id)
    /\ tabs' = [tabs EXCEPT !.writer = "this"]
    /\ UNCHANGED <<newTask, nextId, rendered, hydrations>>

\* The page is loaded again: a new session, with the slot as it was left.
Reload ==
    /\ pc # "init"
    /\ tasks' = <<>>
    /\ newTask' = <<>>
    /\ nextId' = 1
    /\ pc' = "init"
    /\ rendered' = FALSE
    /\ shown' = <<>>
    /\ hydrations' = 0
    /\ hist' = NewSession(hist)
    /\ last' = Plain("reload")
    /\ UNCHANGED <<store, tabs>>

Next ==
    \/ FirstRender
    \/ Hydrate
    \/ HydrateThrows
    \/ \E text \in Titles : onChange(text)
    \/ addTask
    \/ \E id \in 1..(MaxId + 1) : handleDelete(id)
    \/ Reload

Spec == Init /\ [][Next]_vars

\* ---------------------------------------------------------------- two tabs
\* The page open in two tabs: each is a session of its own (lines 62-68)
\* on the one 'tasks' slot. A handler or effect runs to its end in the tab
\* it belongs to; between two of them the other tab can take its turn.
\* SwitchTab turns to the other tab: its session becomes the current one.
SwitchTab ==
    /\ tasks' = tabs.other.tasks
    /\ newTask' = tabs.other.newTask
    /\ nextId' = tabs.other.nextId
    /\ pc' = tabs.other.pc
    /\ rendered' = tabs.other.rendered
    /\ shown' = tabs.other.shown
    /\ hydrations' = tabs.other.hydrations
    /\ tabs' = [other |-> [tasks |-> tasks, newTask |-> newTask, nextId |-> nextId,
                           pc |-> pc, rendered |-> rendered, shown |-> shown,
                           hydrations |-> hydrations],
                writer |-> CASE tabs.writer = "this" -> "other"
                             [] tabs.writer = "other" -> "this"
                             [] OTHER -> "none"]
    /\ last' = Plain("switch")
    /\ UNCHANGED <<store, hist>>

\* The two sessions run from their start to their end: neither tab is
\* loaded again. hist.adds counts the adds of both.
NextTabs ==
    \/ FirstRender
    \/ Hydrate
    \/ HydrateThrows
    \/ \E text \in Titles : onChange(text)
    \/ hist.adds < MaxTabAdds /\ addTask
    \/ \E id \in 1..(MaxId + 1) : handleDelete(id)
    \/ SwitchTab

SpecTabs == Init /\ [][NextTabs]_vars

\* ------------------------------------------------------------- properties
Ids(ts) == {ts[k].id : k \in 1..Len(ts)}
Largest(S) == IF S = {} THEN 0 ELSE CHOOSE m \in S : \A x \in S : x <= m
Without(ts, k) == SubSeq(ts, 1, k - 1) \o SubSeq(ts, k + 1, Len(ts))
EffectRan == last.op \in {"hydrate", "throw"}
EmptyArrayText == <<"[", "]">>

\* C1: no two tasks of the in-memory collection have the same id, in every
\* state reachable by rendering, hydration, addTask, deleteTask and reloads.
C1_UniqueIds == \A i, j \in 1..Len(tasks) : tasks[i].id = tasks[j].id => i = j

\* A session that loaded tasks of an earlier session, deleted, and added.
C1_Witness ==
    /\ last.op = "add" /\ Len(tasks) >= 2
    /\ hist.adds = 1 /\ hist.deleted /\ last.maxGiven > Len(tasks)

\* C2: in a session hydrated from the empty collection that has only added
\* tasks, the collection is as long as the number of addTask calls and the
\* k-th task has id k.
C2_AddsCountFromOne ==
    (hist.emptyStart /\ ~hist.deleted) =>
        /\ Len(tasks) = hist.adds
        /\ \A k \in 1..Len(tasks) : tasks[k].id = k

\* Three adds with three different titles.
C2_Witness ==
    /\ hist.emptyStart /\ ~hist.deleted /\ hist.adds = 3
    /\ Cardinality({tasks[k].title : k \in 1..Len(tasks)}) = 3

\* C3: deleteTask(id) takes out the one task with that id and leaves the
\* others as they were and in their order; with no such task the collection
\* stays as it was, and nothing is thrown.
C3_DeleteRemovesOne ==
    last.op = "delete" =>
        /\ pc # "crashed"
        /\ IF last.id \in Ids(last.tasks)
           THEN \E k \in 1..Len(last.tasks) :
                    last.tasks[k].id = last.id /\ tasks = Without(last.tasks, k)
           ELSE tasks = last.tasks

\* The middle one of three tasks is deleted.
C3_Witness ==
    /\ last.op = "delete" /\ Len(last.tasks) = 3
    /\ last.id = last.tasks[2].id /\ Len(tasks) = 2

\* C4: once a session has added or deleted, the slot holds the serialization
\* of the in-memory collection, and parsing it gives that collection back.
C4_SlotMirrorsTasks ==
    (hist.mutated /\ pc # "crashed") =>
        /\ store = Slot(JSONstringify(tasks))
        /\ LET r == JSONparse(store.text)
           IN  /\ r.ok /\ r.val.t = "arr" /\ Len(r.val.a) = Len(tasks)
               /\ \A k \in 1..Len(tasks) : AsTask(r.val.a[k]) = tasks[k]

\* After a delete that left two tasks, one with a quote in its title.
C4_Witness ==
    /\ last.op = "delete" /\ Len(tasks) = 2 /\ Len(last.tasks) = 3
    /\ \E k \in 1..2 : tasks[k].title = QuoteBackslash

\* C5: hydrating from a slot this program wrote gives the collection that
\* was written (order, id, title, description) and the counter
\* max(ids) + 1, and the first addTask after loading a collection with
\* largest id n gives id n + 1.
C5_RoundTrip ==
    /\ (EffectRan /\ hist.wrote) =>
           /\ pc = "hydrated"
           /\ tasks = hist.written
           /\ nextId = Largest(Ids(hist.written)) + 1
    /\ (last.op = "add" /\ last.fresh /\ last.wrote) =>
           /\ last.id = Largest(Ids(last.tasks)) + 1
           /\ tasks[Len(tasks)].id = last.id

\* A reloaded session hydrates two tasks, one with a quote in its title.
C5_Witness ==
    /\ last.op = "hydrate" /\ hist.wrote /\ hist.adds = 0 /\ ~hist.mutated
    /\ Len(tasks) = 2 /\ tasks[1].id = 2
    /\ \E k \in 1..2 : tasks[k].title = QuoteBackslash

\* Text that is not the serialization of an array of tasks.
Malformed(st) ==
    /\ st.present
    /\ LET r == JSONparse(st.text)
       IN  ~(r.ok /\ r.val.t = "arr" /\ \A k \in 1..Len(r.val.a) : IsTaskValue(r.val.a[k]))

\* C6: hydrating from a slot with malformed data (no JSON, or JSON that is no
\* array of tasks) throws nothing and gives the empty collection and the
\* counter 1.
C6_MalformedIsEmpty ==
    (EffectRan /\ Malformed(store)) =>
        pc = "hydrated" /\ tasks = <<>> /\ nextId = 1

\* C7: hydrating from an absent slot, or from the serialized empty array,
\* gives the empty collection and the counter 1.
C7_EmptyStart ==
    (EffectRan /\ (~store.present \/ store.text = EmptyArrayText)) =>
        pc = "hydrated" /\ tasks = <<>> /\ nextId = 1

\* A session hydrated from the slot an earlier one left as "[]".
C7_Witness ==
    /\ last.op = "hydrate" /\ store = Slot(EmptyArrayText)
    /\ ~hist.mutated /\ hist.maxGiven > 0

\* C8: addTask with input text t, collection c and counter n gives c followed
\* by {id: n, title: t, description: ''}, the counter n + 1 and empty input.
C8_AddAppends ==
    last.op = "add" =>
        /\ tasks = last.tasks \o
                   <<[id |-> last.nextId, title |-> last.newTask, description |-> <<>>]>>
        /\ nextId = last.nextId + 1
        /\ newTask = <<>>

\* An add to a collection of two, with text in the input.
C8_Witness ==
    /\ last.op = "add" /\ Len(last.tasks) = 2 /\ last.newTask # <<>>

\* C9 as claimed: the id an addTask of a hydrated session gives is larger
\* than the id every earlier addTask gave, in this session or in one before
\* it, so that the id of a deleted task is not given again.
C9_NeverReused ==
    (last.op = "add" /\ last.hydrations = 1) => last.id > last.maxGiven

\* C9 amended: the id an addTask gives is larger than the ids the earlier
\* addTask calls of the same session gave and than every id in the
\* collection it adds to.
C9_MonotoneInSession ==
    last.op = "add" =>
        /\ last.id > last.sessGiven
        /\ \A k \in 1..Len(last.tasks) : last.tasks[k].id < last.id

\* An add after an earlier add and a delete of the same session.
C9_Witness ==
    /\ last.op = "add" /\ last.sessGiven > 0 /\ last.deleted
    /\ last.tasks # <<>>

\* C10 as claimed: the effect runs once, before the list is first rendered,
\* and no addTask or deleteTask runs before it.
C10_HydratedBeforeRender ==
    /\ hydrations <= 1
    /\ rendered => hydrations = 1
    /\ last.op \in {"add", "delete"} => last.hydrations = 1

\* C10 amended: the effect runs at most once per session and after the first
\* render; that render shows the initial empty collection; a session that is
\* hydrated has run it once; an addTask or deleteTask that runs before it
\* works on the empty collection and the counter 1.
C10_HydratedAfterRender ==
    /\ hydrations <= 1
    /\ hydrations = 1 => rendered
    /\ pc = "hydrated" => hydrations = 1
    /\ pc = "mounted" => (rendered /\ hydrations = 0 /\ shown = <<>>)
    /\ (last.op \in {"add", "delete"} /\ last.hydrations = 0) =>
           (last.tasks = <<>> /\ last.nextId = 1)

\* A session whose first render showed no tasks, hydrated with two.
C10_Witness ==
    /\ last.op = "hydrate" /\ last.pc = "mounted" /\ last.tasks = <<>>
    /\ rendered /\ hydrations = 1 /\ Len(shown) = 2

\* C11: with two tabs on the one slot, both hydrated, the slot holds the
\* serialization of the collection of the tab that added or deleted last,
\* whatever the other tab holds: the last writer wins and nothing is merged.
BothHydrated == pc = "hydrated" /\ tabs.other.pc = "hydrated"

C11_LastWriterWins ==
    BothHydrated =>
        /\ tabs.writer = "this" => store = Slot(JSONstringify(tasks))
        /\ tabs.writer = "other" => store = Slot(JSONstringify(tabs.other.tasks))

\* Both tabs hydrated from the empty slot; the other tab added a task, then
\* this tab added one with another title: the slot holds this tab's task
\* alone.
C11_Witness ==
    /\ BothHydrated /\ tabs.writer = "this" /\ last.op = "add" /\ last.pc = "hydrated"
    /\ Len(tasks) = 1 /\ Len(tabs.other.tasks) = 1
    /\ tasks[1].title # tabs.other.tasks[1].title
    /\ SlotTasks(store) = tasks

\* C12: addTask run with empty input text appends a task with the title ''
\* and the current counter as id, raises the counter and writes the
\* collection to the slot, as it does for any other title.
C12_BlankTitleAdded ==
    (last.op = "add" /\ last.newTask = <<>>) =>
        /\ tasks = Append(last.tasks,
                          [id |-> last.nextId, title |-> <<>>, description |-> <<>>])
        /\ nextId = last.nextId + 1
        /\ store.present /\ SlotTasks(store) = tasks

\* A blank task added to a hydrated collection that has a task already.
C12_Witness ==
    /\ last.op = "add" /\ last.newTask = <<>> /\ last.pc = "hydrated"
    /\ last.tasks # <<>> /\ tasks[Len(tasks)].title = <<>>

\* C13: in a hydrated session the counter is at least 1 and larger than the
\* id of every task of the collection, and no step of the session lowers it.
C13_CounterAboveIds ==
    /\ [](pc = "hydrated" =>
            /\ nextId >= 1
            /\ \A k \in 1..Len(tasks) : tasks[k].id < nextId)
    /\ [][(pc = "hydrated" /\ pc' = "hydrated") => nextId' >= nextId]_vars

\* The task with the largest id has been deleted: the counter stays two
\* above the largest id left.
C13_Witness ==
    /\ last.op = "delete" /\ last.pc = "hydrated" /\ pc = "hydrated"
    /\ Len(last.tasks) = 2 /\ last.id = last.tasks[2].id
    /\ Len(tasks) = 1 /\ nextId = tasks[1].id + 2

\* C14: the collection is in strictly ascending order of id in every state.
C14_SortedById ==
    \A i, j \in 1..Len(tasks) : i < j => tasks[i].id < tasks[j].id

\* A task loaded from an earlier session that had deleted the first of its
\* two, and one added after it.
C14_Witness ==
    /\ last.op = "add" /\ last.pc = "hydrated" /\ hist.adds = 1 /\ ~hist.deleted
    /\ Len(tasks) = 2 /\ tasks[1].id = 2 /\ tasks[2].id = 3

\* C15: handleDelete leaves the counter and the input text as they are;
\* onChange leaves the collection, the counter and the slot as they are;
\* the effect leaves the slot as it is.
C15_Frames ==
    [][/\ last'.op = "delete" => (nextId' = nextId /\ newTask' = newTask)
       /\ last'.op = "change" => (tasks' = tasks /\ nextId' = nextId /\ store' = store)
       /\ last'.op \in {"hydrate", "throw"} => store' = store]_vars

\* A delete that took a task out while there was text in the input.
C15_Witness ==
    /\ last.op = "delete" /\ last.pc = "hydrated"
    /\ Len(tasks) < Len(last.tasks)
    /\ newTask # <<>> /\ newTask = last.newTask /\ nextId = last.nextId

====
